---- MODULE Spec2Model ----
(***************************************************************************)
(* Model of screenpipe-vision/src/capture_screenshot_by_window.rs:         *)
(* the skip registry (SKIP_APPS / SKIP_TITLES), WindowFilters, the         *)
(* validity check is_valid_window and the orchestrator                     *)
(* capture_all_visible_windows.                                            *)
(*                                                                         *)
(* A Rust string is a sequence of one-character strings, so that           *)
(* to_lowercase and contains are computed and not assumed.                 *)
(***************************************************************************)
EXTENDS Integers, Sequences, FiniteSets, TLC

\* ------------------------------------------------------------------------
\* Bounds
\* ------------------------------------------------------------------------
\* longest enumeration returned by Window::all()
MaxWindows == 3
\* longest ignore_list / include_list handed to WindowFilters::new
MaxListLen == 2

\* ------------------------------------------------------------------------
\* Strings
\* ------------------------------------------------------------------------
UpperCase == <<"A","B","C","D","E","F","G","H","I","J","K","L","M",
               "N","O","P","Q","R","S","T","U","V","W","X","Y","Z">>
LowerCase == <<"a","b","c","d","e","f","g","h","i","j","k","l","m",
               "n","o","p","q","r","s","t","u","v","w","x","y","z">>

\* char::to_lowercase on the ASCII range
to_lowercase_char(c) ==
    IF \E k \in 1..Len(UpperCase) : UpperCase[k] = c
    THEN LowerCase[CHOOSE k \in 1..Len(UpperCase) : UpperCase[k] = c]
    ELSE c

\* str::to_lowercase
to_lowercase(s) == [k \in 1..Len(s) |-> to_lowercase_char(s[k])]

\* str::contains(&str): needle occurs in hay as a contiguous substring
contains(hay, needle) ==
    \E k \in 0..(Len(hay) - Len(needle)) :
        SubSeq(hay, k + 1, k + Len(needle)) = needle

Dock       == <<"D", "o", "c", "k">>
Dockington == <<"D", "o", "c", "k", "i", "n", "g", "t", "o", "n">>
Notes      == <<"N", "o", "t", "e", "s">>
Finder     == <<"F", "i", "n", "d", "e", "r">>
Inbox      == <<"I", "n", "b", "o", "x">>
Desktop    == <<"D", "e", "s", "k", "t", "o", "p">>
dock       == <<"d", "o", "c", "k">>
finder     == <<"f", "i", "n", "d", "e", "r">>

\* ------------------------------------------------------------------------
\* Skip registry
\* ------------------------------------------------------------------------
Platforms == {"macos", "windows", "linux"}

\* SKIP_APPS, target_os = "macos" (lines 37-50)
SKIP_APPS_macos ==
    { <<"W", "i", "n", "d", "o", "w", " ", "S", "e", "r", "v", "e", "r">>,
      <<"S", "y", "s", "t", "e", "m", "U", "I", "S", "e", "r", "v", "e", "r">>,
      <<"C", "o", "n", "t", "r", "o", "l", "C", "e", "n", "t", "e", "r">>,
      <<"D", "o", "c", "k">>,
      <<"N", "o", "t", "i", "f", "i", "c", "a", "t", "i", "o", "n", "C", "e", "n", "t", "e", "r">>,
      <<"l", "o", "g", "i", "n", "w", "i", "n", "d", "o", "w">>,
      <<"W", "i", "n", "d", "o", "w", "M", "a", "n", "a", "g", "e", "r">>,
      <<"C", "o", "n", "t", "e", "x", "t", "s">>,
      <<"S", "c", "r", "e", "e", "n", "s", "h", "o", "t">> }

\* SKIP_APPS, target_os = "windows" (lines 52-63)
SKIP_APPS_windows ==
    { <<"W", "i", "n", "d", "o", "w", "s", " ", "S", "h", "e", "l", "l", " ", "E", "x", "p", "e", "r", "i", "e", "n", "c", "e", " ", "H", "o", "s", "t">>,
      <<"M", "i", "c", "r", "o", "s", "o", "f", "t", " ", "T", "e", "x", "t", " ", "I", "n", "p", "u", "t", " ", "A", "p", "p", "l", "i", "c", "a", "t", "i", "o", "n">>,
      <<"W", "i", "n", "d", "o", "w", "s", " ", "E", "x", "p", "l", "o", "r", "e", "r">>,
      <<"P", "r", "o", "g", "r", "a", "m", " ", "M", "a", "n", "a", "g", "e", "r">>,
      <<"M", "i", "c", "r", "o", "s", "o", "f", "t", " ", "S", "t", "o", "r", "e">>,
      <<"S", "e", "a", "r", "c", "h">>,
      <<"T", "a", "s", "k", "B", "a", "r">> }

\* SKIP_APPS, target_os = "linux" (lines 65-76)
SKIP_APPS_linux ==
    { <<"G", "n", "o", "m", "e", "-", "s", "h", "e", "l", "l">>,
      <<"P", "l", "a", "s", "m", "a">>,
      <<"X", "f", "d", "e", "s", "k", "t", "o", "p">>,
      <<"P", "o", "l", "y", "b", "a", "r">>,
      <<"i", "3", "b", "a", "r">>,
      <<"P", "l", "a", "n", "k">>,
      <<"D", "o", "c", "k">> }

\* SKIP_TITLES, target_os = "macos" (lines 78-104)
SKIP_TITLES_macos ==
    { <<"I", "t", "e", "m", "-", "0">>,
      <<"A", "p", "p", " ", "I", "c", "o", "n", " ", "W", "i", "n", "d", "o", "w">>,
      <<"D", "o", "c", "k">>,
      <<"N", "o", "w", "P", "l", "a", "y", "i", "n", "g">>,
      <<"F", "o", "c", "u", "s", "M", "o", "d", "e", "s">>,
      <<"S", "h", "o", "r", "t", "c", "u", "t", "s">>,
      <<"A", "u", "d", "i", "o", "V", "i", "d", "e", "o", "M", "o", "d", "u", "l", "e">>,
      <<"C", "l", "o", "c", "k">>,
      <<"W", "i", "F", "i">>,
      <<"B", "a", "t", "t", "e", "r", "y">>,
      <<"B", "e", "n", "t", "o", "B", "o", "x">>,
      <<"M", "e", "n", "u", " ", "B", "a", "r">>,
      <<"N", "o", "t", "i", "f", "i", "c", "a", "t", "i", "o", "n", " ", "C", "e", "n", "t", "e", "r">>,
      <<"C", "o", "n", "t", "r", "o", "l", " ", "C", "e", "n", "t", "e", "r">>,
      <<"S", "p", "o", "t", "l", "i", "g", "h", "t">>,
      <<"M", "i", "s", "s", "i", "o", "n", " ", "C", "o", "n", "t", "r", "o", "l">>,
      <<"D", "e", "s", "k", "t", "o", "p">>,
      <<"S", "c", "r", "e", "e", "n", " ", "S", "h", "a", "r", "i", "n", "g">>,
      <<"T", "o", "u", "c", "h", " ", "B", "a", "r">>,
      <<"S", "t", "a", "t", "u", "s", " ", "B", "a", "r">>,
      <<"M", "e", "n", "u", " ", "E", "x", "t", "r", "a">>,
      <<"S", "y", "s", "t", "e", "m", " ", "S", "e", "t", "t", "i", "n", "g", "s">> }

\* SKIP_TITLES, target_os = "windows" (lines 106-120)
SKIP_TITLES_windows ==
    { <<"P", "r", "o", "g", "r", "a", "m", " ", "M", "a", "n", "a", "g", "e", "r">>,
      <<"W", "i", "n", "d", "o", "w", "s", " ", "I", "n", "p", "u", "t", " ", "E", "x", "p", "e", "r", "i", "e", "n", "c", "e">>,
      <<"M", "i", "c", "r", "o", "s", "o", "f", "t", " ", "T", "e", "x", "t", " ", "I", "n", "p", "u", "t", " ", "A", "p", "p", "l", "i", "c", "a", "t", "i", "o", "n">>,
      <<"T", "a", "s", "k", " ", "V", "i", "e", "w">>,
      <<"S", "t", "a", "r", "t">>,
      <<"S", "y", "s", "t", "e", "m", " ", "T", "r", "a", "y">>,
      <<"N", "o", "t", "i", "f", "i", "c", "a", "t", "i", "o", "n", " ", "A", "r", "e", "a">>,
      <<"A", "c", "t", "i", "o", "n", " ", "C", "e", "n", "t", "e", "r">>,
      <<"T", "a", "s", "k", " ", "B", "a", "r">>,
      <<"D", "e", "s", "k", "t", "o", "p">> }

\* SKIP_TITLES, target_os = "linux" (lines 122-135)
SKIP_TITLES_linux ==
    { <<"D", "e", "s", "k", "t", "o", "p">>,
      <<"P", "a", "n", "e", "l">>,
      <<"T", "o", "p", " ", "B", "a", "r">>,
      <<"S", "t", "a", "t", "u", "s", " ", "B", "a", "r">>,
      <<"D", "o", "c", "k">>,
      <<"D", "a", "s", "h", "b", "o", "a", "r", "d">>,
      <<"A", "c", "t", "i", "v", "i", "t", "i", "e", "s">>,
      <<"S", "y", "s", "t", "e", "m", " ", "T", "r", "a", "y">>,
      <<"N", "o", "t", "i", "f", "i", "c", "a", "t", "i", "o", "n", " ", "A", "r", "e", "a">> }

\* the SKIP_APPS static the build for platform p holds
SKIP_APPS(p) ==
    CASE p = "macos"   -> SKIP_APPS_macos
      [] p = "windows" -> SKIP_APPS_windows
      [] p = "linux"   -> SKIP_APPS_linux

\* the SKIP_TITLES static the build for platform p holds
SKIP_TITLES(p) ==
    CASE p = "macos"   -> SKIP_TITLES_macos
      [] p = "windows" -> SKIP_TITLES_windows
      [] p = "linux"   -> SKIP_TITLES_linux

\* is_system_window with substring matching, as WindowFilters matches
is_system_window_substring(p, app_name, title) ==
    \/ \E a \in SKIP_APPS(p) : contains(app_name, a)
    \/ \E t \in SKIP_TITLES(p) : contains(title, t)

\* SKIP_APPS.contains(app_name) || SKIP_TITLES.contains(title)
is_system_window(p, app_name, title) ==
    app_name \in SKIP_APPS(p) \/ title \in SKIP_TITLES(p)

\* ------------------------------------------------------------------------
\* WindowFilters
\* ------------------------------------------------------------------------
\* the set of the elements of a list
Range(s) == {s[k] : k \in 1..Len(s)}

\* WindowFilters::new
WindowFilters_new(ignore_list, include_list) ==
    [ignore_set  |-> {to_lowercase(s) : s \in Range(ignore_list)},
     include_set |-> {to_lowercase(s) : s \in Range(include_list)}]

\* is_valid with the ignore list checked before the include list
is_valid_ignore_first(self, app_name, title) ==
    LET app_name_lower == to_lowercase(app_name)
        title_lower    == to_lowercase(title)
    IN  IF self.include_set = {}
        THEN TRUE
        ELSE IF self.ignore_set # {}
                /\ \E ignore \in self.ignore_set :
                       contains(app_name_lower, ignore) \/ contains(title_lower, ignore)
        THEN FALSE
        ELSE \E include \in self.include_set :
                 contains(app_name_lower, include) \/ contains(title_lower, include)

\* WindowFilters::is_valid
is_valid(self, app_name, title) ==
    LET app_name_lower == to_lowercase(app_name)
        title_lower    == to_lowercase(title)
    IN  IF self.include_set = {}
        THEN TRUE
        ELSE IF \E include \in self.include_set :
                    contains(app_name_lower, include) \/ contains(title_lower, include)
        THEN TRUE
        ELSE IF self.ignore_set # {}
                /\ \E ignore \in self.ignore_set :
                       contains(app_name_lower, ignore) \/ contains(title_lower, ignore)
        THEN FALSE
        ELSE FALSE

\* ------------------------------------------------------------------------
\* is_valid_window
\* ------------------------------------------------------------------------
\* the focus policy with || in place of &&
focus_policy_either(window_monitor, window_is_focused, monitor) ==
    window_monitor = monitor \/ window_is_focused

\* the focus policy: the window is on the target monitor and reports focused
focus_policy(window_monitor, window_is_focused, monitor) ==
    window_monitor = monitor /\ window_is_focused

\* is_valid_window with the filters consulted before the skip registry, so
\* that an include match returns early
is_valid_window_filters_first(p, window, monitor, filters, capture_unfocused_windows) ==
    IF ~capture_unfocused_windows
       /\ ~focus_policy(window.current_monitor, window.is_focused, monitor)
    THEN FALSE
    ELSE IF filters.include_set # {} /\ is_valid(filters, window.app_name, window.title)
    THEN TRUE
    ELSE IF is_system_window(p, window.app_name, window.title)
    THEN FALSE
    ELSE is_valid(filters, window.app_name, window.title)

\* is_valid_window; window is what the handle answers at the time of the call
is_valid_window(p, window, monitor, filters, capture_unfocused_windows) ==
    IF ~capture_unfocused_windows
       /\ ~focus_policy(window.current_monitor, window.is_focused, monitor)
    THEN FALSE
    ELSE IF is_system_window(p, window.app_name, window.title)
    THEN FALSE
    ELSE is_valid(filters, window.app_name, window.title)

\* ------------------------------------------------------------------------
\* The binding: windows, monitors, pixel buffers
\* ------------------------------------------------------------------------
eDP1  == <<"e", "D", "P", "-", "1">>
HDMI1 == <<"H", "D", "M", "I", "-", "1">>
capture_failed == <<"c", "a", "p", "t", "u", "r", "e", " ", "f", "a", "i", "l", "e", "d">>

\* monitor ids
Monitors == {1, 2}

\* Monitor::name
MonitorName(m) == IF m = 1 THEN eDP1 ELSE HDMI1

\* the windows of the desktop: what a handle answers to app_name(), title()
\* and current_monitor().id()
WindowPool ==
    << [app_name |-> Dock,       title |-> Inbox,   current_monitor |-> 1],
       [app_name |-> Dockington, title |-> dock,    current_monitor |-> 1],
       [app_name |-> Notes,      title |-> Desktop, current_monitor |-> 2],
       [app_name |-> Finder,     title |-> Inbox,   current_monitor |-> 2] >>

Handles == 1..Len(WindowPool)

\* focused_window when no window of the pool has the focus
NoWindow == 0

\* the lists Window::all() can return: up to MaxWindows windows of the
\* desktop, in the order of the desktop
Enumerations ==
    UNION { { ws \in [1..n -> Handles] : \A a, b \in 1..n : a < b => ws[a] < ws[b] }
            : n \in 0..MaxWindows }

\* the RgbaImage values capture_image() can return: width, height and the
\* length of the raw container
Buffers ==
    { [width |-> 1, height |-> 1, len |-> 4],
      [width |-> 2, height |-> 1, len |-> 4],
      [width |-> 1, height |-> 1, len |-> 8] }

\* what awaiting spawn_blocking(move || window.capture_image()) can yield
CaptureOutcomes ==
    { [kind |-> "Ok", buffer |-> b] : b \in Buffers }
      \cup { [kind |-> "Err", buffer |-> [width |-> 0, height |-> 0, len |-> 0]],
             [kind |-> "JoinError", buffer |-> [width |-> 0, height |-> 0, len |-> 0]] }

\* ImageBuffer::from_raw(width, height, buf) is Some exactly when the
\* container holds at least width * height * 4 bytes
from_raw_is_some(width, height, len) == width * height * 4 <= len

\* the (ignore_list, include_list) pairs the orchestrator is run with
OrchestratorLists ==
    { << <<>>, <<>> >>,
      << <<dock>>, <<>> >>,
      << <<dock>>, <<Dock>> >> }

\* ------------------------------------------------------------------------
\* State
\* ------------------------------------------------------------------------
VARIABLES
    platform,                   \* the target_os of the build
    monitor,                    \* id of the monitor argument
    ignore_list, include_list,  \* the arguments of WindowFilters::new
    window_filters,             \* the WindowFilters argument
    capture_unfocused_windows,  \* the flag argument
    focused_window,             \* the handle that answers is_focused() = true
    pc,                         \* position in capture_all_visible_windows
    windows_data,               \* the tuples extracted from Window::all()
    idx,                        \* position of the for loop in windows_data
    all_captured_images,        \* the accumulating Vec<CapturedWindow>
    ret,                        \* how the call ended
    log,                        \* the records written with error!
    enumerated,                 \* what awaiting the enumeration yielded
    trail,                      \* per window looked at: what the loop saw and did
    call                        \* the last direct call of a pub fn and its value

vars == << platform, monitor, ignore_list, include_list, window_filters,
           capture_unfocused_windows, focused_window, pc, windows_data, idx,
           all_captured_images, ret, log, enumerated, trail, call >>

args == << platform, monitor, ignore_list, include_list, window_filters,
           capture_unfocused_windows >>

NoCall == [fn |-> "none"]

\* what the handle h answers when asked now
WindowNow(h) ==
    [app_name        |-> WindowPool[h].app_name,
     title           |-> WindowPool[h].title,
     current_monitor |-> WindowPool[h].current_monitor,
     is_focused      |-> (focused_window = h)]

Init ==
    /\ platform \in Platforms
    /\ monitor \in Monitors
    /\ \E lists \in OrchestratorLists :
          /\ ignore_list = lists[1]
          /\ include_list = lists[2]
    /\ window_filters = WindowFilters_new(ignore_list, include_list)
    /\ capture_unfocused_windows \in BOOLEAN
    /\ focused_window \in Handles \cup {NoWindow}
    /\ pc = "start"
    /\ windows_data = << >>
    /\ idx = 1
    /\ all_captured_images = << >>
    /\ ret = "none"
    /\ log = << >>
    /\ enumerated = "none"
    /\ trail = << >>
    /\ call = NoCall

\* ------------------------------------------------------------------------
\* capture_all_visible_windows
\* ------------------------------------------------------------------------
\* the tuple extracted from one window inside the enumeration task
extract(h) ==
    [app_name    |-> WindowNow(h).app_name,
     window_name |-> WindowNow(h).title,
     is_focused  |-> WindowNow(h).is_focused,
     window      |-> h]

\* spawn_blocking(|| Window::all()...).await?? fails: the task did not join
\* or the binding returned an XCapError
EnumerateFail ==
    /\ pc = "start"
    /\ \E e \in {"JoinError", "XCapError"} :
          /\ enumerated' = e
          /\ ret' = e
    /\ pc' = "done"
    /\ UNCHANGED << args, focused_window, windows_data, idx, all_captured_images,
                    log, trail, call >>

\* the emptiness check left out
windows_data_is_empty_never(wd) == FALSE

\* windows_data.is_empty()
windows_data_is_empty(wd) == Len(wd) = 0

\* the enumeration succeeds; an empty list ends the call with NoWindows
Enumerate ==
    /\ pc = "start"
    /\ \E ws \in Enumerations :
          /\ windows_data' = [k \in 1..Len(ws) |-> extract(ws[k])]
          /\ IF windows_data_is_empty(windows_data')
             THEN /\ ret' = "NoWindows"
                  /\ pc' = "done"
             ELSE /\ ret' = ret
                  /\ pc' = "loop"
    /\ enumerated' = "Ok"
    /\ UNCHANGED << args, focused_window, idx, all_captured_images, log, trail, call >>

\* one iteration of the for loop up to the await of the capture: the validity
\* check, then continue or dispatch window.capture_image()
CheckWindow ==
    /\ pc = "loop"
    /\ idx <= Len(windows_data)
    /\ LET window   == WindowNow(windows_data[idx].window)
           is_valid_ == is_valid_window(platform, window, monitor, window_filters,
                                        capture_unfocused_windows)
       IN  /\ trail' = Append(trail, [window          |-> windows_data[idx].window,
                                      is_focused      |-> window.is_focused,
                                      current_monitor |-> window.current_monitor,
                                      valid           |-> is_valid_,
                                      capture         |-> "none",
                                      buffer          |-> [width |-> 0, height |-> 0, len |-> 0]])
           /\ IF ~is_valid_
              THEN /\ idx' = idx + 1
                   /\ pc' = "loop"
              ELSE /\ idx' = idx
                   /\ pc' = "capture"
    /\ UNCHANGED << args, focused_window, windows_data, all_captured_images, ret,
                    log, enumerated, call >>

\* the CapturedWindow pushed for the tuple t and the image made of buffer
CapturedWindow(t, buffer) ==
    [image       |-> buffer,
     app_name    |-> t.app_name,
     window_name |-> t.window_name,
     is_focused  |-> t.is_focused]

\* the record error! writes when the capture of the tuple t fails
capture_error_record(t, m) ==
    [window_name |-> t.window_name,
     monitor     |-> MonitorName(m),
     error       |-> capture_failed]

\* the awaited capture completes: JoinError leaves the call through ?, Ok is
\* normalised with from_raw(..).unwrap() and pushed, Err is logged
CaptureDone ==
    /\ pc = "capture"
    /\ \E o \in CaptureOutcomes :
          /\ trail' = [trail EXCEPT ![Len(trail)].capture = o.kind,
                                    ![Len(trail)].buffer = o.buffer]
          /\ CASE o.kind = "JoinError" ->
                    /\ ret' = "JoinError"
                    /\ pc' = "done"
                    /\ UNCHANGED << idx, all_captured_images, log >>
               [] o.kind = "Ok" /\ ~from_raw_is_some(o.buffer.width, o.buffer.height, o.buffer.len) ->
                    /\ ret' = "panic"
                    /\ pc' = "done"
                    /\ UNCHANGED << idx, all_captured_images, log >>
               [] o.kind = "Ok" /\ from_raw_is_some(o.buffer.width, o.buffer.height, o.buffer.len) ->
                    /\ all_captured_images' =
                           Append(all_captured_images, CapturedWindow(windows_data[idx], o.buffer))
                    /\ idx' = idx + 1
                    /\ pc' = "loop"
                    /\ UNCHANGED << ret, log >>
               [] o.kind = "Err" ->
                    /\ log' = Append(log, capture_error_record(windows_data[idx], monitor))
                    /\ idx' = idx + 1
                    /\ pc' = "loop"
                    /\ UNCHANGED << ret, all_captured_images >>
    /\ UNCHANGED << args, focused_window, windows_data, enumerated, call >>

\* the loop is over: Ok(all_captured_images)
ReturnOk ==
    /\ pc = "loop"
    /\ idx > Len(windows_data)
    /\ ret' = "Ok"
    /\ pc' = "done"
    /\ UNCHANGED << args, focused_window, windows_data, idx, all_captured_images,
                    log, enumerated, trail, call >>

\* the desktop while the call is suspended at an await: the focus moves
FocusChange ==
    /\ pc \in {"loop", "capture"}
    /\ \E h \in (Handles \cup {NoWindow}) \ {focused_window} : focused_window' = h
    /\ UNCHANGED << args, pc, windows_data, idx, all_captured_images, ret, log,
                    enumerated, trail, call >>

Next ==
    \/ EnumerateFail
    \/ Enumerate
    \/ CheckWindow
    \/ CaptureDone
    \/ ReturnOk
    \/ FocusChange

Spec == Init /\ [][Next]_vars

TypeOK ==
    /\ pc \in {"start", "loop", "capture", "done", "idle", "returned"}
    /\ ret \in {"none", "Ok", "NoWindows", "XCapError", "JoinError", "panic"}
    /\ idx \in 1..(Len(windows_data) + 1)

\* ------------------------------------------------------------------------
\* Direct calls of WindowFilters::is_valid and is_valid_window
\* ------------------------------------------------------------------------
inbox == <<"i", "n", "b", "o", "x">>

\* the strings the lists are made of
Patterns == {dock, Dock, inbox}

\* the lists WindowFilters::new is called with
Lists == UNION { [1..n -> Patterns] : n \in 0..MaxListLen }

AppNames == {Dock, Dockington, Notes, dock}
Titles   == {Inbox, Desktop, dock}

FnInit ==
    /\ platform \in Platforms
    /\ monitor = 1
    /\ ignore_list \in Lists
    /\ include_list \in Lists
    /\ window_filters = WindowFilters_new(ignore_list, include_list)
    /\ capture_unfocused_windows \in BOOLEAN
    /\ focused_window = NoWindow
    /\ pc = "idle"
    /\ windows_data = << >>
    /\ idx = 1
    /\ all_captured_images = << >>
    /\ ret = "none"
    /\ log = << >>
    /\ enumerated = "none"
    /\ trail = << >>
    /\ call = NoCall

\* window_filters.is_valid(app_name, title)
CallIsValid ==
    /\ pc = "idle"
    /\ \E app_name \in AppNames, title \in Titles :
          call' = [fn     |-> "is_valid",
                   window |-> [app_name |-> app_name, title |-> title,
                               current_monitor |-> 0, is_focused |-> FALSE],
                   value  |-> is_valid(window_filters, app_name, title)]
    /\ pc' = "returned"
    /\ UNCHANGED << args, focused_window, windows_data, idx, all_captured_images,
                    ret, log, enumerated, trail >>

\* is_valid_window(&window, monitor, &window_filters, capture_unfocused_windows)
CallIsValidWindow ==
    /\ pc = "idle"
    /\ \E app_name \in AppNames, title \in Titles, m \in Monitors, f \in BOOLEAN :
          LET window == [app_name |-> app_name, title |-> title,
                         current_monitor |-> m, is_focused |-> f]
          IN  call' = [fn     |-> "is_valid_window",
                       window |-> window,
                       value  |-> is_valid_window(platform, window, monitor, window_filters,
                                                  capture_unfocused_windows)]
    /\ pc' = "returned"
    /\ UNCHANGED << args, focused_window, windows_data, idx, all_captured_images,
                    ret, log, enumerated, trail >>

FnNext ==
    \/ CallIsValid
    \/ CallIsValidWindow

FnSpec == FnInit /\ [][FnNext]_vars

\* ------------------------------------------------------------------------
\* Properties
\* ------------------------------------------------------------------------
\* the window of the pool the k-th entry of the trail is about
TrailWindow(k) == WindowPool[trail[k].window]

\* app_name or title is a member of the skip sets of the build
InSkipSets(app_name, title) ==
    \/ \E a \in SKIP_APPS(platform) : a = app_name
    \/ \E t \in SKIP_TITLES(platform) : t = title

\* some member of the set of patterns is a substring of the lowercased
\* app_name or of the lowercased title
MatchesSome(patterns, app_name, title) ==
    \E s \in patterns :
        contains(to_lowercase(app_name), s) \/ contains(to_lowercase(title), s)

\* the k-th window passed the validity check and its capture returned Ok
Succeeded(k) == trail[k].valid /\ trail[k].capture = "Ok"

\* the windows among the first k that succeeded, in enumeration order, as
\* (app_name, window_name) pairs
RECURSIVE SuccessfulWindows(_)
SuccessfulWindows(k) ==
    IF k = 0 THEN << >>
    ELSE IF Succeeded(k)
         THEN Append(SuccessfulWindows(k - 1),
                     << windows_data[k].app_name, windows_data[k].window_name >>)
         ELSE SuccessfulWindows(k - 1)

\* the returned list as (app_name, window_name) pairs
ReturnedWindows ==
    [j \in 1..Len(all_captured_images) |->
        << all_captured_images[j].app_name, all_captured_images[j].window_name >>]

\* the k-th window has an entry in the returned list
Returned(k) ==
    \E j \in 1..Len(all_captured_images) :
        /\ all_captured_images[j].app_name = windows_data[k].app_name
        /\ all_captured_images[j].window_name = windows_data[k].window_name

\* C1: for a non-empty enumeration the call returns Ok with exactly the
\* windows that passed the validity check and whose capture succeeded, in
\* enumeration order; a failed capture neither aborts the batch nor makes the
\* call fail.
C1_FailedCaptureNeverAbortsBatch ==
    (/\ pc = "done"
     /\ enumerated = "Ok"
     /\ Len(windows_data) > 0
     /\ \A k \in 1..Len(trail) : trail[k].capture # "JoinError")
    => /\ ret = "Ok"
       /\ Len(trail) = Len(windows_data)
       /\ ReturnedWindows = SuccessfulWindows(Len(trail))

\* C2: the call ends with NoWindows exactly when the enumeration succeeded
\* with zero windows; a non-empty enumeration in which every window is
\* invalid or fails to capture ends with Ok and an empty list.
C2_NoWindowsIffEmptyEnumeration ==
    pc = "done" =>
        /\ (ret = "NoWindows") <=> (enumerated = "Ok" /\ Len(windows_data) = 0)
        /\ (/\ enumerated = "Ok"
            /\ Len(windows_data) > 0
            /\ \A k \in 1..Len(trail) : ~trail[k].valid \/ trail[k].capture = "Err")
           => (ret = "Ok" /\ all_captured_images = << >>)

\* a non-empty enumeration, one window invalid and one capture failed, ended
\* with Ok and an empty list
C2_Witness ==
    /\ pc = "done"
    /\ ret = "Ok"
    /\ all_captured_images = << >>
    /\ \E k \in 1..Len(trail) : ~trail[k].valid
    /\ \E k \in 1..Len(trail) : trail[k].capture = "Err"

\* C3: a capture that returns a buffer whose length differs from
\* width * height * 4 ends in a recoverable error: no crash, the window is
\* left out, and every sibling that succeeded is returned.
C3_BufferSizeMismatchIsRecoverable ==
    pc = "done" =>
        \A k \in 1..Len(trail) :
            (/\ trail[k].capture = "Ok"
             /\ trail[k].buffer.len # trail[k].buffer.width * trail[k].buffer.height * 4)
            => /\ ret # "panic"
               /\ ~Returned(k)
               /\ \A j \in 1..Len(trail) :
                      (/\ j # k
                       /\ Succeeded(j)
                       /\ trail[j].buffer.len = trail[j].buffer.width * trail[j].buffer.height * 4)
                      => (ret = "Ok" => Returned(j))

\* C4: with an empty include_list and a non-empty ignore_list, is_valid is
\* false when the lowercased app_name or title contains a member of the
\* ignore set, and true otherwise.
C4_IgnoreListExcludes ==
    (call.fn = "is_valid" /\ include_list = << >> /\ ignore_list # << >>)
    => (call.value
          <=> ~MatchesSome(window_filters.ignore_set,
                           call.window.app_name, call.window.title))

C6_SkipRegistryExactMatch ==
    (/\ call.fn = "is_valid_window"
     /\ include_list = << >>
     /\ \/ capture_unfocused_windows
        \/ (call.window.is_focused /\ call.window.current_monitor = monitor))
    => (call.value = FALSE <=> InSkipSets(call.window.app_name, call.window.title))

\* "Dockington" was accepted by a build whose skip-app set holds "Dock"
C6_Witness ==
    /\ call.fn = "is_valid_window"
    /\ include_list = << >>
    /\ capture_unfocused_windows
    /\ Dock \in SKIP_APPS(platform)
    /\ call.window.app_name = Dockington
    /\ call.window.title = dock
    /\ call.value = TRUE

\* C7: a window whose app name or title is in the skip sets is never valid,
\* never captured and never in the list, whatever the flag and the filters.
C7_SystemWindowsNeverCaptured ==
    /\ \A k \in 1..Len(trail) :
           InSkipSets(TrailWindow(k).app_name, TrailWindow(k).title)
           => (~trail[k].valid /\ trail[k].capture = "none")
    /\ \A j \in 1..Len(all_captured_images) :
           ~InSkipSets(all_captured_images[j].app_name,
                       all_captured_images[j].window_name)

\* the call returned a non-empty list and had skipped a system window that
\* the include list matches
C7_Witness ==
    /\ pc = "done"
    /\ ret = "Ok"
    /\ Len(all_captured_images) > 0
    /\ \E k \in 1..Len(trail) :
          /\ InSkipSets(TrailWindow(k).app_name, TrailWindow(k).title)
          /\ MatchesSome(window_filters.include_set,
                         TrailWindow(k).app_name, TrailWindow(k).title)
          /\ ~trail[k].valid

\* C8: with capture_unfocused_windows false a window is valid, and its
\* capture dispatched, only if at its validity check it was on the target
\* monitor and reported focused; with the flag true validity depends on the
\* skip sets and the filters alone.
C8_FocusPolicy ==
    /\ ~capture_unfocused_windows =>
           \A k \in 1..Len(trail) :
               (trail[k].valid \/ trail[k].capture # "none")
               => (trail[k].current_monitor = monitor /\ trail[k].is_focused)
    /\ capture_unfocused_windows =>
           \A k \in 1..Len(trail) :
               trail[k].valid
                 <=> (/\ ~InSkipSets(TrailWindow(k).app_name, TrailWindow(k).title)
                      /\ is_valid(window_filters, TrailWindow(k).app_name,
                                  TrailWindow(k).title))

\* with the flag false, a focused window on another monitor that nothing
\* else excludes was skipped, and another window was captured
C8_Witness ==
    /\ ~capture_unfocused_windows
    /\ pc = "done"
    /\ \E k \in 1..Len(trail) :
          /\ trail[k].is_focused
          /\ trail[k].current_monitor # monitor
          /\ ~InSkipSets(TrailWindow(k).app_name, TrailWindow(k).title)
          /\ is_valid(window_filters, TrailWindow(k).app_name, TrailWindow(k).title)
          /\ ~trail[k].valid
          /\ trail[k].capture = "none"
    /\ \E k \in 1..Len(trail) : Succeeded(k)

\* the strings a log record carries
LogStrings(r) == {r.window_name, r.monitor, r.error}

\* C9: when the call returns, every valid window whose capture failed has a
\* log record carrying its app name, its title and its owning monitor.
C9_FailureLogIdentifiesWindow ==
    (pc = "done" /\ ret = "Ok") =>
        \A k \in 1..Len(trail) :
            (trail[k].valid /\ trail[k].capture = "Err")
            => \E n \in 1..Len(log) :
                   /\ TrailWindow(k).app_name \in LogStrings(log[n])
                   /\ TrailWindow(k).title \in LogStrings(log[n])
                   /\ MonitorName(trail[k].current_monitor) \in LogStrings(log[n])

\* C10: with capture_unfocused_windows false every returned CapturedWindow
\* has is_focused = true.
C10_ReturnedWindowsAreFocused ==
    (pc = "done" /\ ret = "Ok" /\ ~capture_unfocused_windows) =>
        \A j \in 1..Len(all_captured_images) : all_captured_images[j].is_focused

====
